---- MODULE Spec2Model ----
(***************************************************************************)
(* Model of the blog front end: the admin panel (src/admin/admin.js,       *)
(* src/admin/login.js) with the stored session token, the page guard, the  *)
(* auto-logout timer, the API client and the page controllers, and the     *)
(* public pages (src/blog/blog.js), run by one browser tab's event loop.   *)
(* Every handler runs to its next await in one step; a pending navigation  *)
(* commits in a later step, so code after window.location.replace still    *)
(* runs, as it does in a browser.                                          *)
(***************************************************************************)
EXTENDS Integers, FiniteSets, Sequences, TLC

VARIABLES
    token,            \* localStorage['blog_cms_token']
    now,              \* Date.now(), in ms
    loginImpl,        \* which script serves login.html: "admin.js" or "login.js"
    page,             \* the document the tab shows
    query,            \* "id" when the page's query string carries ?id=, else "none"
    pc,               \* position of the page's init function
    nav,              \* pending navigation target, "none" when there is none
    isAuthorized,     \* what protectRoute returned to the page's init function
    bound,            \* the page's event handlers are bound
    autoLogoutTimer,  \* admin.js:122, 0 stands for null
    timers,           \* the live timeouts of the document
    nextId,           \* the id the next setTimeout returns
    alertMsg,         \* the last alert() shown by the document
    inflight,         \* how many fetches of each kind await an answer
    lastSent,         \* history: the last request the document issued
    postToDelete,     \* admin.js:447
    submitDisabled,   \* the page's submit button is disabled
    notice,           \* the inline message the page shows
    panel,            \* which of loading / error / empty / content the page shows
    writer,           \* history: the operation that last wrote the stored token
    ev,               \* history: the last step taken and the answer it handled
    fired,            \* history: ids of the auto-logout timers that fired, in order
    cancelled,        \* history: ids of the auto-logout timers that were cleared
    api401,           \* history: 401 answers apiRequest handled on this page load
    apiRedirects,     \* history: location.replace('login.html') calls apiRequest made
    content,          \* post.content, a string as the sequence of its characters
    rendered,         \* what blog.js last made of content, and by which function
    slideCount,       \* home.js:58, slides.length
    currentSlide,     \* home.js:57
    autoSlideInterval,\* home.js:59, 0 stands for undefined
    intervals,        \* the ids of the intervals of the home page that run
    nextIntervalId,   \* the id the next setInterval returns
    activeSlides,     \* indices of the slides that carry the class active
    activeDots,       \* indices of the dots that carry the class active
    hovering,         \* the pointer is over the hero slider
    homeEv            \* history: the last event the home page handled

tabVars == <<token, now, loginImpl, page, query, pc, nav, isAuthorized, bound,
             autoLogoutTimer, timers, nextId, alertMsg, inflight, lastSent,
             postToDelete,
             submitDisabled, notice, panel, writer, ev, fired, cancelled, api401,
             apiRedirects>>

homeVars == <<slideCount, currentSlide, autoSlideInterval, intervals,
              nextIntervalId, activeSlides, activeDots, hovering, homeEv>>

vars == <<tabVars, content, rendered, homeVars>>

----------------------------------------------------------------------------
(* Bounds of the model *)

Step == 15000
MaxTicks == 2
MaxTimers == 3
MaxInflight == 2
MaxCount == 2
MaxPieces == 4     \* pieces a post's content is put together from
MaxLength == 4     \* largest explicit maxLength of an excerpt
MaxSlides == 3     \* slides of the hero slider
MaxIntervals == 4  \* setInterval calls of one home page load

(* Program constants *)

BUFFER_TIME == 30 * 1000
REDIRECT_DELAY == 2000

Max(a, b) == IF a >= b THEN a ELSE b
Min(a, b) == IF a <= b THEN a ELSE b

----------------------------------------------------------------------------
(* The stored value.  localStorage.getItem yields null (lit = "missing") or *)
(* a string: the empty string, the literals "undefined" and "null", or a    *)
(* token text (lit = "jwt") with `segs` dot-separated segments whose middle *)
(* segment decodes to nothing ("bad"), to an object without exp ("noexp")   *)
(* or to an object with exp = `exp` seconds ("exp").                        *)

NoItem == [lit |-> "missing", segs |-> 0, payload |-> "none", exp |-> 0]
Literal(l) == [lit |-> l, segs |-> 1, payload |-> "none", exp |-> 0]
Jwt(n, p, e) == [lit |-> "jwt", segs |-> n, payload |-> p, exp |-> e]

ExpSeconds == {0, 15, 60}
GoodTokens == {Jwt(3, "exp", e) : e \in ExpSeconds}
OddTokens == {Jwt(2, "exp", 60), Jwt(3, "bad", 0), Jwt(3, "noexp", 0)}
AbsentLike == {NoItem, Literal(""), Literal("undefined"), Literal("null")}
StoredValues == AbsentLike \cup GoodTokens \cup OddTokens

\* what the tab may find in storage when it opens, and what a login may answer
InitTokens == AbsentLike \cup {Jwt(3, "exp", 15), Jwt(3, "exp", 60), Jwt(3, "noexp", 0)}
LoginTokens == {Jwt(3, "exp", 60), Literal("null")}

\* JavaScript truthiness of a getItem result: null and "" are falsy
Truthy(t) == t.lit \notin {"missing", ""}

getToken(t) == t

isAuthenticated(t) == Truthy(getToken(t))

\* !token || token === 'undefined' || token === 'null'
NoTokenCheck(t) == ~Truthy(t) \/ t.lit = "undefined" \/ t.lit = "null"

\* decodeJWT: null unless three segments whose payload parses
decodeJWT(t) ==
    IF t.segs # 3 THEN [ok |-> FALSE, hasExp |-> FALSE, exp |-> 0]
    ELSE IF t.payload = "bad" THEN [ok |-> FALSE, hasExp |-> FALSE, exp |-> 0]
    ELSE [ok |-> TRUE, hasExp |-> t.payload = "exp", exp |-> t.exp]

\* !payload || !payload.exp
NoExpiry(p) == ~p.ok \/ ~p.hasExp \/ p.exp = 0

isTokenExpiredStrict(t, time) ==
    LET payload == decodeJWT(t)
    IN  IF NoExpiry(payload) THEN TRUE
        ELSE time > payload.exp * 1000

isTokenExpired(t, time) ==
    LET payload == decodeJWT(t)
    IN  IF NoExpiry(payload) THEN TRUE
        ELSE time >= payload.exp * 1000

getTokenRemainingTime(t, time) ==
    LET payload == decodeJWT(t)
    IN  IF NoExpiry(payload) THEN 0
        ELSE Max(0, payload.exp * 1000 - time)

----------------------------------------------------------------------------
(* The state as one record, so that the handlers compose as the code's      *)
(* statements do; Commit writes a record back to the variables.             *)

World ==
    [token |-> token, now |-> now, loginImpl |-> loginImpl, page |-> page,
     query |-> query, pc |-> pc, nav |-> nav, isAuthorized |-> isAuthorized,
     bound |-> bound, autoLogoutTimer |-> autoLogoutTimer, timers |-> timers,
     nextId |-> nextId, alertMsg |-> alertMsg, inflight |-> inflight, lastSent |-> lastSent,
     postToDelete |-> postToDelete, submitDisabled |-> submitDisabled,
     notice |-> notice, panel |-> panel, writer |-> writer,
     ev |-> ev, fired |-> fired, cancelled |-> cancelled,
     api401 |-> api401, apiRedirects |-> apiRedirects]

Commit(w) ==
    /\ token' = w.token
    /\ now' = w.now
    /\ loginImpl' = w.loginImpl
    /\ page' = w.page
    /\ query' = w.query
    /\ pc' = w.pc
    /\ nav' = w.nav
    /\ isAuthorized' = w.isAuthorized
    /\ bound' = w.bound
    /\ autoLogoutTimer' = w.autoLogoutTimer
    /\ timers' = w.timers
    /\ nextId' = w.nextId
    /\ alertMsg' = w.alertMsg
    /\ inflight' = w.inflight
    /\ lastSent' = w.lastSent
    /\ postToDelete' = w.postToDelete
    /\ submitDisabled' = w.submitDisabled
    /\ notice' = w.notice
    /\ panel' = w.panel
    /\ writer' = w.writer
    /\ ev' = w.ev
    /\ fired' = w.fired
    /\ cancelled' = w.cancelled
    /\ api401' = w.api401
    /\ apiRedirects' = w.apiRedirects
    /\ UNCHANGED <<content, rendered, homeVars>>

Event(o, a) == [op |-> o, status |-> a.status, body |-> a.body, outcome |-> "none"]
NoAnswer == [status |-> "none", body |-> "none"]

setToken(w, t) == [w EXCEPT !.token = t, !.writer = "login"]

\* removeToken, called by operation `who`
removeToken(w, who) == [w EXCEPT !.token = NoItem, !.writer = who]

\* window.location.replace(target) / window.location.href = target
Navigate(w, target) == [w EXCEPT !.nav = target]

\* setTimeout: a live timeout with the next id
setTimeout(w, k, delay) ==
    [w EXCEPT !.timers = @ \cup {[id |-> w.nextId, kind |-> k, armedAt |-> w.now,
                                  delay |-> delay, exp |-> w.token.exp]},
              !.nextId = @ + 1]

\* if (autoLogoutTimer) { clearTimeout(autoLogoutTimer); autoLogoutTimer = null; }
ClearAutoLogoutTimer(w) ==
    IF w.autoLogoutTimer # 0
    THEN [w EXCEPT !.timers = {t \in @ : t.id # w.autoLogoutTimer},
                   !.cancelled = @ \cup {t.id : t \in {u \in w.timers :
                                                     u.id = w.autoLogoutTimer}},
                   !.autoLogoutTimer = 0]
    ELSE w

performLogoutKeepsTimer(w, reason) ==
    Navigate([removeToken(w, "performLogout") EXCEPT !.alertMsg = reason], "login")

performLogout(w, reason) ==
    LET w1 == ClearAutoLogoutTimer(w)
        w2 == removeToken(w1, "performLogout")
        w3 == [w2 EXCEPT !.alertMsg = reason]
    IN  Navigate(w3, "login")

\* checkTokenExpiry: the expiry test reads the clock at w.now, the remaining
\* time reads it again at `later`.  Yields the world and the value returned.
checkTokenExpiry(w, later) ==
    IF NoTokenCheck(w.token) THEN [w |-> w, ret |-> 0]
    ELSE IF isTokenExpired(w.token, w.now)
    THEN [w |-> performLogout(w, "Session expired"), ret |-> 0]
    ELSE [w |-> [w EXCEPT !.now = later],
          ret |-> getTokenRemainingTime(w.token, later)]

\* Math.max(remainingTime - BUFFER_TIME, 0)
LogoutDelayMutant(remainingTime) == remainingTime

LogoutDelay(remainingTime) == Max(remainingTime - BUFFER_TIME, 0)

\* the first statement of setupAutoLogout
ClearExistingMutant(w) == [w EXCEPT !.autoLogoutTimer = 0]

ClearExisting(w) == ClearAutoLogoutTimer(w)

setupAutoLogout(w, later) ==
    LET w1 == ClearExisting(w)
        c == checkTokenExpiry(w1, later)
    IN  IF c.ret = 0 THEN c.w
        ELSE [setTimeout(c.w, "autoLogout", LogoutDelay(c.ret))
                EXCEPT !.autoLogoutTimer = c.w.nextId]

----------------------------------------------------------------------------
(* Requests and answers *)

PostIds == {"p1", "p2"}
GuardedPages == {"dashboard", "add-post", "edit-post"}
Pages == GuardedPages \cup {"login"}

\* the public pages blog.js serves: posts.html and post.html
PublicPages == {"posts", "post"}

NoRequest == [kind |-> "none", post |-> "none", auth |-> FALSE, json |-> FALSE]
Kinds == {"me", "login", "loginjs", "list", "fetch", "delete", "create", "update",
          "blogList", "blogPost"}
NoneInFlight == [k \in Kinds |-> 0]

\* the requests apiRequest sends, and those among them with a FormData body
ApiKinds == {"login", "list", "fetch", "delete", "create", "update"}
FormDataKinds == {"create", "update"}

RECURSIVE SumOver(_, _)
SumOver(f, S) ==
    IF S = {} THEN 0
    ELSE LET k == CHOOSE x \in S : TRUE IN f[k] + SumOver(f, S \ {k})

Outstanding(w) == SumOver(w.inflight, Kinds)

CanFetch(w) == Outstanding(w) < MaxInflight

\* fetch(): one more request of kind k awaits its answer; lastSent keeps what
\* it carried: auth says whether it has an Authorization header, json whether
\* it has Content-Type: application/json
fetch(w, k, post, auth, json) ==
    [w EXCEPT !.inflight[k] = @ + 1,
              !.lastSent = [kind |-> k, post |-> post, auth |-> auth, json |-> json]]

\* the answer to a request of kind k has arrived
Answered(w, k) == [w EXCEPT !.inflight[k] = @ - 1]

\* apiRequest up to its await: headers from the stored token and the body
apiRequestSendJsonAlways(w, k, post) ==
    fetch(w, k, post, Truthy(getToken(w.token)), TRUE)

apiRequestSend(w, k, post) ==
    fetch(w, k, post, Truthy(getToken(w.token)), k \notin {"create", "update"})

\* What the backend (or the network) can answer
Statuses == {"neterr", "s401", "serr", "ok", "okbadjson"}
Bodies(k) ==
    IF k = "me" THEN {"valid", "badformat"}
    ELSE IF k \in {"login", "loginjs"} THEN {"tokenTop", "tokenNested", "noToken"}
    \* the two shapes the API documents; blog.js also reads a data field
    ELSE IF k = "list" THEN {"envPosts", "envEmpty", "barePosts", "bareEmpty"}
    ELSE IF k = "blogList"
    THEN {"envPosts", "envEmpty", "barePosts", "bareEmpty", "dataPosts"}
    ELSE IF k = "blogPost" THEN {"envPost", "barePost", "dataPost"}
    ELSE {"data"}
\* the body of an answer with an error status, where apiRequest reads it:
\* JSON with a message, JSON without one, or something that is not JSON
ErrorBodies(k) == IF k \in ApiKinds THEN {"message", "noMessage", "notJson"} ELSE {"none"}
Answers(k) ==
    {[status |-> s, body |-> "none", tok |-> NoItem] : s \in Statuses \ {"ok", "serr"}}
    \cup {[status |-> "serr", body |-> b, tok |-> NoItem] : b \in ErrorBodies(k)}
    \cup {[status |-> "ok", body |-> b, tok |-> NoItem] :
             b \in Bodies(k) \ {"tokenTop", "tokenNested"}}
    \cup {[status |-> "ok", body |-> b, tok |-> t] :
             b \in Bodies(k) \cap {"tokenTop", "tokenNested"},
             t \in LoginTokens}

\* Parsed JSON values, as far as the handlers look into them: undefined, an
\* array of posts, one post, or an object with one field that holds an array
\* or a post; `items` are the posts it carries.
Undefined == [type |-> "undefined", field |-> "none", inner |-> "none", items |-> <<>>]
Arr(posts) == [type |-> "array", field |-> "none", inner |-> "none", items |-> posts]
Post(id) == [type |-> "post", field |-> "none", inner |-> "none", items |-> <<id>>]
Obj(f, v) == [type |-> "object", field |-> f, inner |-> v.type, items |-> v.items]

\* v.f
Get(v, f) ==
    IF v.type = "object" /\ v.field = f
    THEN [type |-> v.inner, field |-> "none", inner |-> "none", items |-> v.items]
    ELSE Undefined

\* arrays and objects are truthy
JsTruthy(v) == v.type # "undefined"

\* a || b
OrElse(a, b) == IF JsTruthy(a) THEN a ELSE b

\* v.length === 0
LengthIsZero(v) == v.type = "array" /\ Len(v.items) = 0

\* the posts of the backend, and the JSON of each body the backend can send
AllPosts == <<"p1", "p2">>
BodyData(b) ==
    IF b = "envPosts" THEN Obj("posts", Arr(AllPosts))
    ELSE IF b = "envEmpty" THEN Obj("posts", Arr(<<>>))
    ELSE IF b = "barePosts" THEN Arr(AllPosts)
    ELSE IF b = "bareEmpty" THEN Arr(<<>>)
    ELSE IF b = "dataPosts" THEN Obj("data", Arr(AllPosts))
    ELSE IF b = "envPost" THEN Obj("post", Post("p1"))
    ELSE IF b = "barePost" THEN Post("p1")
    ELSE IF b = "dataPost" THEN Obj("data", Post("p1"))
    ELSE Undefined

\* what a page shows once `posts` is taken from the answer: the empty state,
\* the list, or, when renderPosts raises on a value without forEach, the
\* list container together with the error state
ShowPosts(posts) ==
    IF ~JsTruthy(posts) \/ LengthIsZero(posts) THEN "empty"
    ELSE IF posts.type = "array" THEN "content"
    ELSE "content+error"

\* !window.location.pathname.includes('login.html')
NotOnLoginPage(w) == w.page # "login"

Bump(n) == Min(n + 1, MaxCount)

\* apiRequest from the answer on: the world, what the caller gets ("data",
\* "null", or "throw" for a raised error) and the message the error carries:
\* that of fetch ("network"), that of response.json() ("parse"), data.message
\* ("backend") or 'Something went wrong' ("generic")
apiRequestAnswer(w, a) ==
    IF a.status = "neterr" THEN [w |-> w, result |-> "throw", error |-> "network"]
    ELSE IF a.status = "s401"
    THEN LET w1 == [removeToken(w, "apiRequest") EXCEPT !.api401 = Bump(@)]
             w2 == IF NotOnLoginPage(w1)
                   THEN [Navigate(w1, "login") EXCEPT !.apiRedirects = Bump(@)]
                   ELSE w1
         IN  [w |-> w2, result |-> "null", error |-> "none"]
    ELSE IF a.status = "okbadjson" \/ a.body = "notJson"
    THEN [w |-> w, result |-> "throw", error |-> "parse"]
    ELSE IF a.status = "serr"
    THEN [w |-> w, result |-> "throw",
          error |-> IF a.body = "message" THEN "backend" ELSE "generic"]
    ELSE [w |-> w, result |-> "data", error |-> "none"]

\* what a call of apiRequest came to, for the record of the step
Outcome(x) == IF x.result = "throw" THEN x.error ELSE x.result

----------------------------------------------------------------------------
(* The page guard *)

\* verifyTokenWithBackend from the answer of /api/auth/me on: the world and
\* the user returned ("user" or "null")
verifyAnswerClearsOnNetworkError(w, a) ==
    IF a.status \in {"neterr", "okbadjson"}
    THEN [w |-> removeToken(w, "verify"), user |-> "null"]
    ELSE IF a.status = "ok" /\ a.body = "valid" THEN [w |-> w, user |-> "user"]
    ELSE [w |-> removeToken(w, "verify"), user |-> "null"]

verifyAnswerKeepsOnServerError(w, a) ==
    IF a.status \in {"neterr", "okbadjson", "serr"} THEN [w |-> w, user |-> "null"]
    ELSE IF a.status = "ok" /\ a.body = "valid" THEN [w |-> w, user |-> "user"]
    ELSE [w |-> removeToken(w, "verify"), user |-> "null"]

verifyAnswer(w, a) ==
    IF a.status = "neterr" THEN [w |-> w, user |-> "null"]
    ELSE IF a.status = "s401" THEN [w |-> removeToken(w, "verify"), user |-> "null"]
    ELSE IF a.status = "serr" THEN [w |-> removeToken(w, "verify"), user |-> "null"]
    ELSE IF a.status = "okbadjson" THEN [w |-> w, user |-> "null"]
    ELSE IF a.body = "valid" THEN [w |-> w, user |-> "user"]
    ELSE [w |-> removeToken(w, "verify"), user |-> "null"]

\* protectRoute's quick check on the stored value
QuickCheckFails(t) == NoTokenCheck(t)

\* verifyTokenWithBackend up to its await: no request without a token
verifyStart(w) ==
    IF NoTokenCheck(getToken(w.token)) THEN [w |-> w, sent |-> FALSE]
    ELSE [w |-> fetch(w, "me", "none", TRUE, TRUE), sent |-> TRUE]

\* protectRoute up to its await
protectRouteStartMutant(w) ==
    IF QuickCheckFails(getToken(w.token))
    THEN [removeToken(w, "protectRoute") EXCEPT !.isAuthorized = "false", !.pc = "halted"]
    ELSE [verifyStart(w).w EXCEPT !.pc = "verifying"]

protectRouteStart(w) ==
    IF QuickCheckFails(getToken(w.token))
    THEN [Navigate(removeToken(w, "protectRoute"), "login")
            EXCEPT !.isAuthorized = "false", !.pc = "halted"]
    ELSE LET v == verifyStart(w)
         IN  IF v.sent THEN [v.w EXCEPT !.pc = "verifying"]
             ELSE [Navigate(v.w, "login")
                     EXCEPT !.isAuthorized = "false", !.pc = "halted"]

\* protectRoute's value for the user verifyTokenWithBackend returned
protectRouteReturnMutant(user) == "true"

protectRouteReturn(user) == IF user = "null" THEN "false" ELSE "true"

\* protectRoute from the answer on
protectRouteAnswerClearsToken(w, a) ==
    LET v == verifyAnswer(w, a)
    IN  IF v.user = "null"
        THEN [Navigate(removeToken(v.w, "protectRoute"), "login")
                EXCEPT !.isAuthorized = protectRouteReturn(v.user)]
        ELSE [v.w EXCEPT !.isAuthorized = protectRouteReturn(v.user)]

protectRouteAnswer(w, a) ==
    LET v == verifyAnswer(w, a)
    IN  IF v.user = "null"
        THEN [Navigate(v.w, "login")
                EXCEPT !.isAuthorized = protectRouteReturn(v.user)]
        ELSE [v.w EXCEPT !.isAuthorized = protectRouteReturn(v.user)]

----------------------------------------------------------------------------
(* The page controllers *)

\* dashboard loadPosts up to its await
loadPosts(w) == apiRequestSend([w EXCEPT !.panel = "loading"], "list", "none")

\* edit-post loadPost up to its await; without ?id= the id is null
loadPost(w) ==
    apiRequestSend([w EXCEPT !.panel = "loading"], "fetch",
                   IF w.query = "none" THEN "null" ELSE "p1")

\* if (!isAuthorized) return;
InitProceedsMutant(ret) == TRUE

InitProceeds(ret) == ret = "true"

\* the rest of initDashboard / initAddPost / initEditPost once protectRoute
\* has returned true
initAfterGuard(w, later) ==
    LET w1 == [setupAutoLogout(w, later) EXCEPT !.bound = TRUE, !.pc = "ready"]
    IN  IF w.page = "dashboard" THEN loadPosts(w1)
        ELSE IF w.page = "edit-post"
        THEN loadPost(IF w1.query = "none" THEN Navigate(w1, "dashboard") ELSE w1)
        ELSE w1

\* the init function of a guarded page from the answer of /api/auth/me on
initGuardedAnswer(w, a, later) ==
    LET w1 == protectRouteAnswer(w, a)
    IN  IF InitProceeds(w1.isAuthorized) THEN initAfterGuard(w1, later)
        ELSE [w1 EXCEPT !.pc = "halted"]

\* a document is loaded: everything the previous document owned is gone
FreshDocument(w, p, q) ==
    [w EXCEPT !.page = p, !.query = q, !.pc = "blank", !.nav = "none",
              !.isAuthorized = "pending", !.bound = FALSE,
              !.autoLogoutTimer = 0, !.timers = {}, !.nextId = 1,
              !.alertMsg = "none", !.inflight = NoneInFlight, !.lastSent = NoRequest, !.postToDelete = "none",
              !.submitDisabled = FALSE, !.notice = "none", !.panel = "none", !.writer = "none",
              !.fired = <<>>, !.cancelled = {}, !.api401 = 0, !.apiRedirects = 0]

\* admin.js on login.html: already-logged-in check, then the form is bound
loginPageAdminJs(w) ==
    [(IF isAuthenticated(w.token) THEN Navigate(w, "dashboard") ELSE w)
        EXCEPT !.bound = TRUE, !.pc = "ready"]

\* login.js on login.html
loginPageLoginJs(w) ==
    [(IF Truthy(w.token) THEN Navigate(w, "dashboard") ELSE w)
        EXCEPT !.bound = TRUE, !.pc = "ready"]

\* blog.js, posts.html: loadPosts up to its await
blogLoadPosts(w) ==
    fetch([w EXCEPT !.panel = "loading"], "blogList", "none", FALSE, FALSE)

\* const posts = data.posts || data.data || []
blogPosts(data) == OrElse(Get(data, "posts"), OrElse(Get(data, "data"), Arr(<<>>)))

\* blog.js, posts.html: loadPosts from the answer on
blogLoadPostsAnswer(w, a) ==
    IF a.status # "ok" THEN [w EXCEPT !.panel = "error"]
    ELSE [w EXCEPT !.panel = ShowPosts(blogPosts(BodyData(a.body)))]

\* blog.js, post.html: loadPost up to its await; without ?id= the id is null
blogLoadPost(w) ==
    fetch([w EXCEPT !.panel = "loading"], "blogPost",
          IF w.query = "none" THEN "null" ELSE "p1", FALSE, FALSE)

\* const post = data.post || data.data
blogPost(data) == OrElse(Get(data, "post"), Get(data, "data"))

\* blog.js, post.html: loadPost from the answer on; postContent is shown
\* before renderPost runs, and renderPost raises on an undefined post
blogLoadPostAnswer(w, a) ==
    IF a.status # "ok" THEN [w EXCEPT !.panel = "error"]
    ELSE IF JsTruthy(blogPost(BodyData(a.body))) THEN [w EXCEPT !.panel = "content"]
    ELSE [w EXCEPT !.panel = "content+error"]

\* blog.js runs on a public page, to its first await
blogPage(w) ==
    LET w1 == [w EXCEPT !.pc = "ready"]
    IN  IF w.page = "posts" THEN blogLoadPosts(w1)
        ELSE blogLoadPost(IF w1.query = "none" THEN Navigate(w1, "posts") ELSE w1)

\* the script of page p runs to its first await
LoadPage(w, p, q) ==
    LET d == FreshDocument(w, p, q)
    IN  IF p = "login"
        THEN IF d.loginImpl = "admin.js" THEN loginPageAdminJs(d)
             ELSE loginPageLoginJs(d)
        ELSE IF p \in PublicPages THEN blogPage(d)
        ELSE protectRouteStart(d)

\* logoutBtn click
clickLogout(w) == Navigate(removeToken(w, "logoutBtn"), "login")

openDeleteModal(w, postId) == [w EXCEPT !.postToDelete = postId]

cancelDeleteKeepsSelection(w) == w

cancelDelete(w) == [w EXCEPT !.postToDelete = "none"]

\* confirmDeleteBtn click up to its await
confirmDeleteUnchecked(w) == apiRequestSend(w, "delete", w.postToDelete)

confirmDelete(w) ==
    IF w.postToDelete = "none" THEN w
    ELSE apiRequestSend(w, "delete", w.postToDelete)

\* confirmDeleteBtn click from the answer on
confirmDeleteAnswer(w, result) ==
    IF result = "throw" THEN [w EXCEPT !.alertMsg = "Error deleting post"]
    ELSE loadPosts([w EXCEPT !.postToDelete = "none"])

\* const posts = data.posts || data
adminPosts(data) == OrElse(Get(data, "posts"), data)

\* dashboard loadPosts from the answer on; data.posts of null raises
loadPostsAnswerStaysLoading(w, result, a) ==
    IF result = "data"
    THEN [w EXCEPT !.panel = ShowPosts(adminPosts(BodyData(a.body)))]
    ELSE IF result = "null" THEN w
    ELSE [w EXCEPT !.panel = "error"]

loadPostsAnswer(w, result, a) ==
    IF result = "data"
    THEN [w EXCEPT !.panel = ShowPosts(adminPosts(BodyData(a.body)))]
    ELSE [w EXCEPT !.panel = "error"]

\* edit-post loadPost from the answer on; data.post of null raises
loadPostAnswer(w, result) ==
    IF result = "data" THEN [w EXCEPT !.panel = "content"]
    ELSE [w EXCEPT !.panel = "error"]

\* loginForm submit (admin.js) up to its await
submitLoginAdminJs(w, filled) ==
    IF ~filled THEN [w EXCEPT !.notice = "error"]
    ELSE apiRequestSend([w EXCEPT !.notice = "none", !.submitDisabled = TRUE],
                        "login", "none")

\* loginForm submit (admin.js) from the answer on; data.token of null raises
submitLoginAdminJsAnswerTopOnly(w, result, a) ==
    IF result = "data" /\ a.body = "tokenTop" /\ Truthy(a.tok)
    THEN Navigate(setToken(w, a.tok), "dashboard")
    ELSE [w EXCEPT !.notice = "error", !.submitDisabled = FALSE]

submitLoginAdminJsAnswer(w, result, a) ==
    IF result = "data" /\ a.body \in {"tokenTop", "tokenNested"} /\ Truthy(a.tok)
    THEN Navigate(setToken(w, a.tok), "dashboard")
    ELSE [w EXCEPT !.notice = "error", !.submitDisabled = FALSE]

\* loginForm submit (login.js) up to its await
submitLoginLoginJs(w, filled) ==
    IF ~filled THEN [w EXCEPT !.notice = "error"]
    ELSE fetch([w EXCEPT !.notice = "none", !.submitDisabled = TRUE],
               "loginjs", "none", FALSE, TRUE)

\* loginForm submit (login.js) from the answer on, finally included
submitLoginLoginJsAnswer(w, a) ==
    IF a.status = "ok" /\ a.body \in {"tokenTop", "tokenNested"} /\ Truthy(a.tok)
    THEN [Navigate(setToken(w, a.tok), "dashboard") EXCEPT !.submitDisabled = FALSE]
    ELSE [w EXCEPT !.notice = "error", !.submitDisabled = FALSE]

\* addPostForm / editPostForm submit up to its await
submitPostUnvalidated(w, filled) ==
    apiRequestSend([w EXCEPT !.notice = "none", !.submitDisabled = TRUE],
                   IF w.page = "add-post" THEN "create" ELSE "update",
                   IF w.page = "add-post" THEN "none"
                   ELSE IF w.query = "none" THEN "null" ELSE "p1")

submitPost(w, filled) ==
    IF ~filled THEN [w EXCEPT !.notice = "error"]
    ELSE apiRequestSend([w EXCEPT !.notice = "none", !.submitDisabled = TRUE],
                        IF w.page = "add-post" THEN "create" ELSE "update",
                        IF w.page = "add-post" THEN "none"
                        ELSE IF w.query = "none" THEN "null" ELSE "p1")

\* addPostForm / editPostForm submit from the answer on
submitPostAnswer(w, result) ==
    IF result = "throw" THEN [w EXCEPT !.notice = "error", !.submitDisabled = FALSE]
    ELSE setTimeout([w EXCEPT !.notice = "success"], "redirect", REDIRECT_DELAY)

\* the caller of apiRequest resumes with its result
Resume(w, k, result, a) ==
    IF k = "list" THEN loadPostsAnswer(w, result, a)
    ELSE IF k = "fetch" THEN loadPostAnswer(w, result)
    ELSE IF k = "delete" THEN confirmDeleteAnswer(w, result)
    ELSE IF k = "login" THEN submitLoginAdminJsAnswer(w, result, a)
    ELSE submitPostAnswer(w, result)

\* a timeout fires: it is no longer live, and its callback runs
timerFires(w, t) ==
    LET w1 == [w EXCEPT !.timers = @ \ {t}]
    IN  IF t.kind = "autoLogout"
        THEN performLogout([w1 EXCEPT !.fired = Append(@, t.id)],
                           "Session expiring soon")
        ELSE Navigate(w1, "dashboard")

----------------------------------------------------------------------------
(* The text functions of blog.js.  A string is the sequence of its          *)
(* characters (UTF-16 code units), each a one-character string; BR stands   *)
(* for the four characters of a line break tag in an output, and BT for the *)
(* backtick (U+0060), which a string of this language cannot hold.          *)

NL == "\n"
BR == "<br>"
BT == "U+0060"

\* the characters \s matches and trim() strips, among those of the model
WhiteSpace == {" ", NL}

\* str.trim()
RECURSIVE TrimStart(_)
TrimStart(str) ==
    IF str # <<>> /\ Head(str) \in WhiteSpace THEN TrimStart(Tail(str)) ELSE str

RECURSIVE TrimEnd(_)
TrimEnd(str) ==
    IF str # <<>> /\ str[Len(str)] \in WhiteSpace
    THEN TrimEnd(SubSeq(str, 1, Len(str) - 1)) ELSE str

Trim(str) == TrimEnd(TrimStart(str))

\* str.replace(/\s+/g, ' '): each match is a longest run, found left to right
RECURSIVE CollapseWhiteSpace(_)
CollapseWhiteSpace(str) ==
    IF str = <<>> THEN <<>>
    ELSE IF Head(str) \in WhiteSpace
    THEN <<" ">> \o CollapseWhiteSpace(TrimStart(str))
    ELSE <<Head(str)>> \o CollapseWhiteSpace(Tail(str))

Ellipsis == <<".", ".", ".">>

\* text.substr(0, n) for n >= 0
Substr0(str, n) == SubSeq(str, 1, Min(n, Len(str)))

truncateTextStrict(str, maxLength) ==
    IF Len(str) < maxLength THEN str
    ELSE Substr0(str, maxLength) \o Ellipsis

truncateText(str, maxLength) ==
    IF Len(str) <= maxLength THEN str
    ELSE Substr0(str, maxLength) \o Ellipsis

getExcerpt(str, maxLength) ==
    truncateText(Trim(CollapseWhiteSpace(str)), maxLength)

\* whether pat occurs in str at index i
OccursAt(str, pat, i) ==
    /\ i + Len(pat) - 1 <= Len(str)
    /\ \A j \in 1..Len(pat) : str[i + j - 1] = pat[j]

StartsWith(str, pat) == OccursAt(str, pat, 1)

\* the index of the first occurrence of pat in str, 0 when there is none
IndexOf(str, pat) ==
    LET at == {i \in 1..Len(str) : OccursAt(str, pat, i)}
    IN  IF at = {} THEN 0 ELSE CHOOSE i \in at : \A j \in at : i <= j

\* str.split(sep), sep not empty
RECURSIVE Split(_, _)
Split(str, sep) ==
    LET i == IndexOf(str, sep)
    IN  IF i = 0 THEN <<str>>
        ELSE <<SubSeq(str, 1, i - 1)>> \o Split(SubSeq(str, i + Len(sep), Len(str)), sep)

\* str.replace(/pat/g, ''), pat a literal
RECURSIVE RemoveAll(_, _)
RemoveAll(str, pat) ==
    LET i == IndexOf(str, pat)
    IN  IF i = 0 THEN str
        ELSE SubSeq(str, 1, i - 1) \o RemoveAll(SubSeq(str, i + Len(pat), Len(str)), pat)

\* the length of the run of c that str starts with
RECURSIVE LeadingRun(_, _)
LeadingRun(str, c) ==
    IF str # <<>> /\ Head(str) = c THEN 1 + LeadingRun(Tail(str), c) ELSE 0

Drop(str, n) == SubSeq(str, n + 1, Len(str))

\* what (.*) matches at the start of str: everything before the first newline
FirstLine(str) ==
    LET i == IndexOf(str, <<NL>>)
    IN  IF i = 0 THEN str ELSE SubSeq(str, 1, i - 1)

\* paragraph.replace(/\n/g, '<br>')
LineBreaks(str) == [i \in 1..Len(str) |-> IF str[i] = NL THEN BR ELSE str[i]]

Fence == <<BT, BT, BT>>

\* an element of the markup: <h{level}> for a heading, level 0 otherwise
Element(tag, level, text) == [tag |-> tag, level |-> level, text |-> text]

\* the heading a paragraph that starts with '#' becomes: the match of
\* /^(#+)\s*(.*)/ never fails on it
headingUncapped(paragraph) ==
    LET level == LeadingRun(paragraph, "#")
        text == FirstLine(TrimStart(Drop(paragraph, level)))
    IN  Element("h", level + 1, text)

heading(paragraph) ==
    LET level == LeadingRun(paragraph, "#")
        text == FirstLine(TrimStart(Drop(paragraph, level)))
    IN  Element("h", Min(level + 1, 6), text)

\* the callback of paragraphs.map
formatParagraph(paragraph) ==
    IF StartsWith(paragraph, <<"#">>) THEN heading(paragraph)
    ELSE IF StartsWith(paragraph, <<">">>)
    THEN Element("blockquote", 0, TrimStart(Drop(paragraph, 1)))
    ELSE IF StartsWith(paragraph, Fence)
    THEN Element("pre>code", 0, Trim(RemoveAll(paragraph, Fence)))
    ELSE Element("p", 0, LineBreaks(paragraph))

\* content.split('\n\n').filter(p => p.trim())
Paragraphs(str) == SelectSeq(Split(str, <<NL, NL>>), LAMBDA para : Trim(para) # <<>>)

\* the elements of the returned markup, in order; join('') puts nothing
\* between them
formatContent(str) ==
    LET paragraphs == Paragraphs(str)
    IN  [i \in 1..Len(paragraphs) |-> formatParagraph(paragraphs[i])]

----------------------------------------------------------------------------
(* The tab: one action per event the event loop can run *)

\* no post is being rendered
NotRendered == [fn |-> "none", maxLength |-> 0, excerpt |-> <<>>, html |-> <<>>]
NoText == content = <<>> /\ rendered = NotRendered

\* the home page is not the document shown
NoHome ==
    /\ slideCount = 0
    /\ currentSlide = 0
    /\ autoSlideInterval = 0
    /\ intervals = {}
    /\ nextIntervalId = 1
    /\ activeSlides = {}
    /\ activeDots = {}
    /\ hovering = FALSE
    /\ homeEv = "none"

MaxNow == MaxTicks * Step

Init ==
    /\ token \in InitTokens
    /\ now = 0
    /\ loginImpl \in {"admin.js", "login.js"}
    /\ page = "blank"
    /\ query = "none"
    /\ pc = "blank"
    /\ nav = "none"
    /\ isAuthorized = "pending"
    /\ bound = FALSE
    /\ autoLogoutTimer = 0
    /\ timers = {}
    /\ nextId = 1
    /\ alertMsg = "none"
    /\ inflight = NoneInFlight
    /\ lastSent = NoRequest
    /\ postToDelete = "none"
    /\ submitDisabled = FALSE
    /\ notice = "none"
    /\ panel = "none"
    /\ writer = "none"
    /\ ev = Event("init", NoAnswer)
    /\ fired = <<>>
    /\ cancelled = {}
    /\ api401 = 0
    /\ apiRedirects = 0
    /\ NoText
    /\ NoHome

Step_(w, o, a) == Commit([w EXCEPT !.ev = Event(o, a)])

\* a step of apiRequest also records what the call came to
StepApi_(w, o, a, out) == Commit([w EXCEPT !.ev = [Event(o, a) EXCEPT !.outcome = out]])

\* what a submit step records: whether every required field had a value
Fields(filled) == [status |-> IF filled THEN "filled" ELSE "empty", body |-> "none"]

\* the user opens a page of the admin panel
UserOpens ==
    \E p \in Pages, q \in {"none", "id"} :
        /\ q = "id" => p = "edit-post"
        /\ Step_(LoadPage(World, p, q), "open", NoAnswer)

\* a pending navigation commits and the target's script runs
NavigationCommits ==
    /\ nav # "none"
    /\ Step_(LoadPage(World, nav, "none"), "navigate", NoAnswer)

\* /api/auth/me answers: protectRoute and the page's init function resume
MeAnswers ==
    \E later \in {now, now + Step} :
        /\ inflight["me"] > 0
        /\ later <= MaxNow
        /\ \E a \in Answers("me") :
              Step_(initGuardedAnswer(Answered(World, "me"), a, later), "me", a)

\* an apiRequest call is answered: apiRequest and its caller resume
ApiAnswers ==
    \E k \in ApiKinds :
        /\ inflight[k] > 0
        /\ \E a \in Answers(k) :
              LET x == apiRequestAnswer(Answered(World, k), a)
              IN  StepApi_(Resume(x.w, k, x.result, a), k, a, Outcome(x))

\* the fetch of login.js is answered
LoginJsAnswers ==
    /\ inflight["loginjs"] > 0
    /\ \E a \in Answers("loginjs") :
          Step_(submitLoginLoginJsAnswer(Answered(World, "loginjs"), a), "loginjs", a)

\* The user acts on a document whose handlers are bound and that is not being
\* navigated away from; what the document already started (requests awaiting
\* an answer, timeouts) still runs while a navigation is pending.
Interactive == bound /\ nav = "none"

ClickLogout ==
    /\ Interactive /\ page \in GuardedPages
    /\ Step_(clickLogout(World), "logoutBtn", NoAnswer)

\* the Delete button of a row of the rendered table
OpenDeleteModal ==
    /\ Interactive /\ page = "dashboard" /\ panel = "content"
    /\ \E id \in PostIds : Step_(openDeleteModal(World, id), "openDelete", NoAnswer)

CancelDelete ==
    /\ Interactive /\ page = "dashboard"
    /\ Step_(cancelDelete(World), "cancelDelete", NoAnswer)

ConfirmDelete ==
    /\ Interactive /\ page = "dashboard"
    /\ postToDelete # "none" => CanFetch(World)
    /\ Step_(confirmDelete(World), "confirmDelete", NoAnswer)

SubmitLogin ==
    /\ Interactive /\ page = "login" /\ ~submitDisabled /\ CanFetch(World)
    /\ \E filled \in BOOLEAN :
          Step_(IF loginImpl = "admin.js" THEN submitLoginAdminJs(World, filled)
                ELSE submitLoginLoginJs(World, filled), "submitLogin", Fields(filled))

\* editPostForm is displayed once loadPost has populated it
SubmitPost ==
    /\ Interactive /\ page \in {"add-post", "edit-post"} /\ ~submitDisabled
    /\ page = "edit-post" => panel = "content"
    /\ CanFetch(World)
    /\ \E filled \in BOOLEAN :
          Step_(submitPost(World, filled), "submitPost", Fields(filled))

TimerFires ==
    \E t \in timers :
        /\ now >= t.armedAt + t.delay
        /\ Step_(timerFires(World, t), t.kind, NoAnswer)

Tick ==
    /\ now + Step <= MaxNow
    /\ Step_([World EXCEPT !.now = @ + Step], "tick", NoAnswer)

Next ==
    \/ UserOpens
    \/ NavigationCommits
    \/ MeAnswers
    \/ ApiAnswers
    \/ LoginJsAnswers
    \/ ClickLogout
    \/ OpenDeleteModal
    \/ CancelDelete
    \/ ConfirmDelete
    \/ SubmitLogin
    \/ SubmitPost
    \/ TimerFires
    \/ Tick

Spec == Init /\ [][Next]_vars

----------------------------------------------------------------------------
(* The public pages: the same tab, whatever it has in storage, showing      *)
(* posts.html and post.html, whose script is blog.js.                       *)

\* the user opens a public page; a card of the listing links to post.html?id=
PublicOpens ==
    \E p \in PublicPages, q \in {"none", "id"} :
        /\ q = "id" => p = "post"
        /\ Step_(LoadPage(World, p, q), "open", NoAnswer)

\* a fetch of blog.js is answered
BlogAnswers ==
    \E k \in {"blogList", "blogPost"} :
        /\ inflight[k] > 0
        /\ \E a \in Answers(k) :
              Step_(IF k = "blogList" THEN blogLoadPostsAnswer(Answered(World, k), a)
                    ELSE blogLoadPostAnswer(Answered(World, k), a), k, a)

PublicNext ==
    \/ PublicOpens
    \/ NavigationCommits
    \/ BlogAnswers

SpecPublic == Init /\ [][PublicNext]_vars

----------------------------------------------------------------------------
(* The tab left alone: the user opens one page, of the admin panel or of    *)
(* the blog, and touches nothing afterwards.  What follows is what the      *)
(* scripts do by themselves: redirects, requests and their answers,         *)
(* timeouts.  A navigation that is pending commits, a due timeout fires and *)
(* the clock advances, hence the fairness; a fetch has no timeout, so       *)
(* nothing is assumed of when, or whether, a request is answered.           *)

ArrivesAdmin == page = "blank" /\ UserOpens

ArrivesPublic == page = "blank" /\ PublicOpens

UnattendedNext ==
    \/ ArrivesAdmin
    \/ ArrivesPublic
    \/ NavigationCommits
    \/ MeAnswers
    \/ ApiAnswers
    \/ BlogAnswers
    \/ TimerFires
    \/ Tick

SpecUnattended ==
    /\ Init
    /\ [][UnattendedNext]_vars
    /\ WF_vars(NavigationCommits)
    /\ WF_vars(TimerFires)
    /\ WF_vars(Tick)

----------------------------------------------------------------------------
(* The text functions applied to the content of one post, as the listing    *)
(* (excerpt of a card) and the post page (meta description, body) do.       *)

\* what a content is put together from: text, white space, a blank line and
\* the markers formatContent looks for; five '#' and one more pass the
\* deepest heading level
Pieces ==
    { <<"a">>, <<" ">>, <<NL>>, <<NL, NL>>, <<"#">>, <<"#", "#", "#", "#", "#">>,
      <<">">>, Fence }

RECURSIVE Flatten(_)
Flatten(ps) == IF ps = <<>> THEN <<>> ELSE Head(ps) \o Flatten(Tail(ps))

Contents == {Flatten(ps) : ps \in UNION {[1..n -> Pieces] : n \in 0..MaxPieces}}

\* function getExcerpt(content, maxLength = 150)
DefaultMaxLength == 150
MaxLengths == 0..MaxLength \cup {DefaultMaxLength}

TextInit ==
    /\ token = NoItem
    /\ now = 0
    /\ loginImpl = "admin.js"
    /\ page = "blank"
    /\ query = "none"
    /\ pc = "blank"
    /\ nav = "none"
    /\ isAuthorized = "pending"
    /\ bound = FALSE
    /\ autoLogoutTimer = 0
    /\ timers = {}
    /\ nextId = 1
    /\ alertMsg = "none"
    /\ inflight = NoneInFlight
    /\ lastSent = NoRequest
    /\ postToDelete = "none"
    /\ submitDisabled = FALSE
    /\ notice = "none"
    /\ panel = "none"
    /\ writer = "none"
    /\ ev = Event("init", NoAnswer)
    /\ fired = <<>>
    /\ cancelled = {}
    /\ api401 = 0
    /\ apiRedirects = 0
    /\ content \in Contents
    /\ rendered = NotRendered
    /\ NoHome

GetExcerpt ==
    \E n \in MaxLengths :
        /\ rendered' = [fn |-> "getExcerpt", maxLength |-> n,
                        excerpt |-> getExcerpt(content, n), html |-> <<>>]
        /\ UNCHANGED <<tabVars, content, homeVars>>

FormatContent ==
    /\ rendered' = [fn |-> "formatContent", maxLength |-> 0,
                    excerpt |-> <<>>, html |-> formatContent(content)]
    /\ UNCHANGED <<tabVars, content, homeVars>>

TextNext ==
    \/ GetExcerpt
    \/ FormatContent

SpecText == TextInit /\ [][TextNext]_vars

----------------------------------------------------------------------------
(* The home page: the hero slider of home.js.  The markup has one dot per   *)
(* slide and at least one slide.  An interval that runs calls nextSlide     *)
(* every five seconds, whatever the handle autoSlideInterval names.         *)

Slider ==
    [slideCount |-> slideCount, currentSlide |-> currentSlide,
     autoSlideInterval |-> autoSlideInterval, intervals |-> intervals,
     nextIntervalId |-> nextIntervalId, activeSlides |-> activeSlides,
     activeDots |-> activeDots]

\* updateSlider: active is removed from every slide and dot, and added to
\* those whose index is currentSlide
updateSlider(h) ==
    [h EXCEPT !.activeSlides = {i \in 0..(h.slideCount - 1) : i = h.currentSlide},
              !.activeDots = {i \in 0..(h.slideCount - 1) : i = h.currentSlide}]

nextSlideNoWrap(h) ==
    updateSlider([h EXCEPT !.currentSlide = h.currentSlide + 1])

nextSlide(h) ==
    updateSlider([h EXCEPT !.currentSlide = (h.currentSlide + 1) % h.slideCount])

\* autoSlideInterval = setInterval(nextSlide, 5000)
startAutoSlide(h) ==
    [h EXCEPT !.autoSlideInterval = h.nextIntervalId,
              !.intervals = @ \cup {h.nextIntervalId},
              !.nextIntervalId = @ + 1]

\* clearInterval(autoSlideInterval)
stopAutoSlide(h) == [h EXCEPT !.intervals = @ \ {h.autoSlideInterval}]

\* the click handler of the dot of index
dotClick(h, index) ==
    startAutoSlide(stopAutoSlide(updateSlider([h EXCEPT !.currentSlide = index])))

\* the slider as the DOMContentLoaded handler leaves it
sliderInit(n) ==
    startAutoSlide(updateSlider(
        [slideCount |-> n, currentSlide |-> 0, autoSlideInterval |-> 0,
         intervals |-> {}, nextIntervalId |-> 1, activeSlides |-> {},
         activeDots |-> {}]))

CommitHome(h, e) ==
    /\ slideCount' = h.slideCount
    /\ currentSlide' = h.currentSlide
    /\ autoSlideInterval' = h.autoSlideInterval
    /\ intervals' = h.intervals
    /\ nextIntervalId' = h.nextIntervalId
    /\ activeSlides' = h.activeSlides
    /\ activeDots' = h.activeDots
    /\ homeEv' = e
    /\ UNCHANGED <<tabVars, content, rendered>>

\* home.html has loaded; the pointer is wherever the user left it
HomeInit ==
    /\ token = NoItem
    /\ now = 0
    /\ loginImpl = "admin.js"
    /\ page = "blank"
    /\ query = "none"
    /\ pc = "blank"
    /\ nav = "none"
    /\ isAuthorized = "pending"
    /\ bound = FALSE
    /\ autoLogoutTimer = 0
    /\ timers = {}
    /\ nextId = 1
    /\ alertMsg = "none"
    /\ inflight = NoneInFlight
    /\ lastSent = NoRequest
    /\ postToDelete = "none"
    /\ submitDisabled = FALSE
    /\ notice = "none"
    /\ panel = "none"
    /\ writer = "none"
    /\ ev = Event("init", NoAnswer)
    /\ fired = <<>>
    /\ cancelled = {}
    /\ api401 = 0
    /\ apiRedirects = 0
    /\ NoText
    /\ hovering \in BOOLEAN
    /\ homeEv = "init"
    /\ \E n \in 1..MaxSlides :
          LET h == sliderInit(n)
          IN  /\ slideCount = h.slideCount
              /\ currentSlide = h.currentSlide
              /\ autoSlideInterval = h.autoSlideInterval
              /\ intervals = h.intervals
              /\ nextIntervalId = h.nextIntervalId
              /\ activeSlides = h.activeSlides
              /\ activeDots = h.activeDots

\* slider.addEventListener('mouseenter', stopAutoSlide)
MouseEnter ==
    /\ ~hovering
    /\ hovering' = TRUE
    /\ CommitHome(stopAutoSlide(Slider), "mouseenter")

\* slider.addEventListener('mouseleave', startAutoSlide)
MouseLeave ==
    /\ hovering
    /\ nextIntervalId <= MaxIntervals
    /\ hovering' = FALSE
    /\ CommitHome(startAutoSlide(Slider), "mouseleave")

\* a dot is clicked, with the pointer over the slider or not
DotClick ==
    \E index \in 0..(slideCount - 1) :
        /\ nextIntervalId <= MaxIntervals
        /\ hovering' = hovering
        /\ CommitHome(dotClick(Slider, index), "dot")

\* an interval that runs fires and calls nextSlide
IntervalFires ==
    \E id \in intervals :
        /\ hovering' = hovering
        /\ CommitHome(nextSlide(Slider), "interval")

HomeNext ==
    \/ MouseEnter
    \/ MouseLeave
    \/ DotClick
    \/ IntervalFires

SpecHome == HomeInit /\ [][HomeNext]_vars

----------------------------------------------------------------------------
(* The session manager on its own: on a document that stays loaded,         *)
(* setupAutoLogout is called again and again while time passes, timeouts    *)
(* fire and logins store new tokens.  The event loop runs a due timeout and *)
(* the clock advances, hence the fairness.                                  *)

SessInit ==
    /\ token \in StoredValues
    /\ now = 0
    /\ loginImpl = "admin.js"
    /\ page = "dashboard"
    /\ query = "none"
    /\ pc = "ready"
    /\ nav = "none"
    /\ isAuthorized = "true"
    /\ bound = TRUE
    /\ autoLogoutTimer = 0
    /\ timers = {}
    /\ nextId = 1
    /\ alertMsg = "none"
    /\ inflight = NoneInFlight
    /\ lastSent = NoRequest
    /\ postToDelete = "none"
    /\ submitDisabled = FALSE
    /\ notice = "none"
    /\ panel = "none"
    /\ writer = "none"
    /\ ev = Event("init", NoAnswer)
    /\ fired = <<>>
    /\ cancelled = {}
    /\ api401 = 0
    /\ apiRedirects = 0
    /\ NoText
    /\ NoHome

SetupAutoLogoutCalled ==
    \E later \in {now, now + Step} :
        /\ later <= MaxNow
        /\ nextId <= MaxTimers
        /\ Step_(setupAutoLogout(World, later), "setup", NoAnswer)

TokenStored ==
    \E t \in GoodTokens \cup {Literal("null")} :
        /\ t # token
        /\ Step_(setToken(World, t), "setToken", NoAnswer)

\* performLogout's default reason and the one the timeout passes
LogoutReasons == {"Session expired", "Session expiring soon"}

\* no token and no timer: the state a logout leaves
LoggedOut(w) == w.token = NoItem /\ w.autoLogoutTimer = 0

\* performLogout is called; the step records whether it found the session
\* already logged out
LogoutCalled ==
    \E reason \in LogoutReasons :
        Step_(performLogout(World, reason), "logout",
              [status |-> IF LoggedOut(World) THEN "loggedOut" ELSE "loggedIn",
               body |-> reason])

SessNext ==
    \/ SetupAutoLogoutCalled
    \/ TokenStored
    \/ LogoutCalled
    \/ TimerFires
    \/ Tick

SpecSession ==
    SessInit /\ [][SessNext]_vars /\ WF_vars(TimerFires) /\ WF_vars(Tick)

----------------------------------------------------------------------------
(* Properties of the auto-logout timer, under SpecSession *)

AutoLogoutTimers == {t \in timers : t.kind = "autoLogout"}

InSeq(x, q) == \E i \in 1..Len(q) : q[i] = x

\* C9: in every state at most one auto-logout timer is armed, and the handle
\* autoLogoutTimer names it, so that the next scheduling call (or logout)
\* cancels it: whatever was armed earlier is no longer live.
C9_AtMostOneTimer ==
    /\ Cardinality(AutoLogoutTimers) <= 1
    /\ \A t \in AutoLogoutTimers : autoLogoutTimer = t.id
    /\ \A id \in cancelled : \A t \in timers : t.id # id

\* C9 witness: a scheduling call has cancelled an armed timer and armed a new one
C9_Witness ==
    /\ ev.op = "setup"
    /\ cancelled # {}
    /\ AutoLogoutTimers # {}

\* the token in storage decodes to an expiry claim that lies ahead of the clock
RemainingNow ==
    IF token.lit = "jwt" /\ token.segs = 3 /\ token.payload = "exp"
    THEN token.exp * 1000 - now
    ELSE 0

C10_DelayOfArmed ==
    \A t \in AutoLogoutTimers :
        LET r == t.exp * 1000 - t.armedAt
        IN  /\ r > 0
            /\ t.delay = (IF r - 30000 >= 0 THEN r - 30000 ELSE 0)

C10_ArmedWhenRemaining ==
    (ev.op = "setup" /\ RemainingNow > 0) =>
        \E t \in AutoLogoutTimers :
            /\ t.id = autoLogoutTimer
            /\ t.armedAt = now
            /\ t.exp = token.exp

C10_FiredOnce ==
    /\ \A i, j \in 1..Len(fired) : fired[i] = fired[j] => i = j
    /\ \A i \in 1..Len(fired) : fired[i] \notin cancelled
    /\ \A t \in timers : ~InSeq(t.id, fired)

C10_NotEarly ==
    fired' # fired =>
        \E t \in AutoLogoutTimers :
            /\ fired' = Append(fired, t.id)
            /\ t \notin timers'
            /\ now >= t.armedAt + t.delay

C10_Rescheduled ==
    ev'.op = "setup" =>
        \A t \in AutoLogoutTimers : t \notin timers' /\ t.id \in cancelled'

C10_Settled(id) ==
    (\E t \in AutoLogoutTimers : t.id = id) ~> (InSeq(id, fired) \/ id \in cancelled)

\* C10: a scheduling call that finds a remaining lifetime r > 0 arms a timer
\* with delay max(r - 30000, 0); an armed timer fires no earlier than its
\* delay, fires once unless a later scheduling call cancels it, and a
\* cancelled timer never fires.
C10_TimerFiresOnceAtDelay ==
    /\ [](C10_DelayOfArmed /\ C10_ArmedWhenRemaining /\ C10_FiredOnce)
    /\ [][C10_NotEarly /\ C10_Rescheduled]_vars
    /\ \A id \in 1..(MaxTimers + 1) : C10_Settled(id)

\* C10 witness: the timer of an earlier call was cancelled by a later call,
\* whose own timer, armed with a positive delay, has fired
C10_Witness ==
    /\ cancelled # {}
    /\ Len(fired) > 0
    /\ ev.op = "autoLogout"
    /\ now >= 30000
    /\ \A i \in 1..Len(fired) : \E id \in cancelled : id < fired[i]

----------------------------------------------------------------------------
(* Properties of the page guard and of the stored token, under Spec *)

Loaded == ev.op \in {"open", "navigate"}
Loaded_ == ev'.op \in {"open", "navigate"}

\* a step that sent a request
Sent_ == \E k \in Kinds : inflight'[k] > inflight[k]

\* C1: once apiRequest has handled a 401 on a page other than login.html,
\* the token is gone, each 401 has issued exactly one redirect to login.html,
\* and login.html stays the pending navigation whatever the caller does
\* after the call returns; on login.html apiRequest issues no redirect.
C1_Claim ==
    /\ (api401 > 0 /\ page # "login") =>
           (token = NoItem /\ apiRedirects = api401 /\ nav = "login")
    /\ (api401 > 0 /\ page = "login") => (apiRedirects = 0 /\ nav # "login")

\* C2: on a guarded page, a request to a posts endpoint, an armed timer or a
\* bound handler implies that protectRoute has returned true after a valid
\* answer of /api/auth/me; after protectRoute redirected, none of them exists.
C2_GuardFirst ==
    page \in GuardedPages =>
        /\ (\/ bound
            \/ timers # {}
            \/ autoLogoutTimer # 0
            \/ lastSent.kind \notin {"none", "me"}
            \/ \E k \in Kinds \ {"me"} : inflight[k] > 0)
           => (isAuthorized = "true" /\ pc = "ready")
        /\ pc \in {"blank", "verifying"} => isAuthorized = "pending"
        /\ pc = "halted" => isAuthorized = "false" /\ nav = "login"
        /\ (ev.op = "me" /\ pc = "ready") => (ev.status = "ok" /\ ev.body = "valid")

\* C2 witness: the dashboard passed the guard, armed its timer, bound its
\* handlers and asked for the posts
C2_Witness ==
    /\ page = "dashboard" /\ ev.op = "me" /\ isAuthorized = "true"
    /\ bound /\ AutoLogoutTimers # {} /\ inflight["list"] = 1

C3_Claim_Step ==
    token \in AbsentLike =>
       /\ (Loaded_ /\ page' = "login") => nav' = "none"
       /\ (Loaded_ /\ page' \in GuardedPages) =>
              (nav' = "login" /\ inflight' = NoneInFlight)
       /\ (Sent_ /\ lastSent'.kind # "loginjs") => ~lastSent'.auth

\* C3: every operation that reads the stored value does with "null",
\* "undefined" and "" what it does with a missing value: the login page
\* stays, a guarded page redirects without a request, and a request that is
\* sent carries no Authorization header.
C3_Claim == [][C3_Claim_Step]_vars

C4_NetworkFailureKeepsToken_Step ==
    (ev'.op = "me" /\ ev'.status = "neterr") =>
       /\ token' = token
       /\ writer' = writer
       /\ isAuthorized' = "false"
       /\ pc' = "halted"
       /\ nav' = "login"

\* C4: when /api/auth/me fails at the network level, the stored token is
\* left as it was and the caller is told the token is not verified
\* (protectRoute returns false and redirects).
C4_NetworkFailureKeepsToken == [][C4_NetworkFailureKeepsToken_Step]_vars

\* C4 witness: verification failed at the network level with a token stored
C4_Witness ==
    /\ ev.op = "me" /\ ev.status = "neterr"
    /\ token \in GoodTokens /\ isAuthorized = "false"

C5_Claim_Step ==
    ev'.op = "me" =>
       /\ ev'.status \in {"s401", "serr"} =>
              (token' = NoItem /\ writer' = "verify" /\ isAuthorized' = "false")
       /\ writer' = "verify" => ev'.status \in {"s401", "serr"}

\* C5 as claimed: a 401 or other non-success answer of /api/auth/me removes
\* the token and reports it invalid, and verification removes the token only
\* on such an answer.
C5_Claim == [][C5_Claim_Step]_vars

C5_VerifyRemovesOnAnswer_Step ==
    ev'.op = "me" =>
       /\ ev'.status \in {"s401", "serr"} =>
              (token' = NoItem /\ writer' = "verify" /\ isAuthorized' = "false")
       /\ writer' = "verify" =>
              \/ ev'.status \in {"s401", "serr"}
              \/ (ev'.status = "ok" /\ ev'.body = "badformat")

\* C5 amended: verification removes the token only on a 401, on another
\* non-success status, or on a success status whose body is not
\* {success, data}; on the first two it always does and reports invalid.
C5_VerifyRemovesOnAnswer == [][C5_VerifyRemovesOnAnswer_Step]_vars

\* C5 witness: a non-success answer other than 401 removed the token
C5_Witness ==
    /\ ev.op = "me" /\ ev.status = "serr"
    /\ token = NoItem /\ writer = "verify" /\ isAuthorized = "false"

\* a stored value that the guard takes for a token
Present(t) == ~NoTokenCheck(t)

LoginSucceeded_ ==
    /\ ev'.op \in {"login", "loginjs"}
    /\ ev'.status = "ok"
    /\ ev'.body \in {"tokenTop", "tokenNested"}
    /\ writer' = "login"

C6_Claim_Step ==
    /\ (Present(token') /\ token' # token) => LoginSucceeded_
    /\ (Present(token) /\ ~Present(token')) =>
           \/ writer' \in {"logoutBtn", "performLogout", "apiRequest"}
           \/ (writer' = "verify" /\ ev'.status = "s401")

\* C6 as claimed: a token appears only through a successful login answer that
\* carries one, and disappears only on the logout button, on expiry
\* (performLogout) and on a 401 answer.
C6_Claim == [][C6_Claim_Step]_vars

C6_TokenLifecycle_Step ==
    /\ (Present(token') /\ token' # token) => LoginSucceeded_
    /\ (Present(token) /\ ~Present(token')) =>
           \/ writer' \in {"logoutBtn", "performLogout", "apiRequest"}
           \/ /\ writer' = "verify"
              /\ ev'.op = "me"
              /\ \/ ev'.status \in {"s401", "serr"}
                 \/ (ev'.status = "ok" /\ ev'.body = "badformat")

\* C6 amended: ... and on an answer of /api/auth/me with any non-success
\* status or with a success status whose body is not {success, data}.
C6_TokenLifecycle == [][C6_TokenLifecycle_Step]_vars

\* C6 witness: a login answer stored a token where none was
C6_Witness ==
    /\ ev.op \in {"login", "loginjs"} /\ ev.status = "ok"
    /\ Present(token) /\ writer = "login" /\ nav = "dashboard"

C7_NoTokenNoCall_Step ==
    (Loaded_ /\ page' \in GuardedPages /\ NoTokenCheck(token)) =>
       /\ nav' = "login"
       /\ isAuthorized' = "false"
       /\ pc' = "halted"
       /\ inflight' = NoneInFlight
       /\ lastSent' = NoRequest

\* C7: protectRoute with no token redirects to login at once and sends nothing
C7_NoTokenNoCall == [][C7_NoTokenNoCall_Step]_vars

\* C7 witness: a guarded page was opened with no token and has redirected
C7_Witness ==
    /\ Loaded /\ page \in GuardedPages /\ token = NoItem
    /\ writer = "protectRoute" /\ nav = "login" /\ pc = "halted"

VerifiedIdentity == "user"

C8_Verifies ==
    (Loaded_ /\ page' \in GuardedPages /\ ~NoTokenCheck(token)) =>
        /\ inflight'["me"] = 1
        /\ lastSent'.kind = "me" /\ lastSent'.auth
        /\ pc' = "verifying"
        /\ nav' = "none"

C8_Fails ==
    (ev'.op = "me" /\ ~(ev'.status = "ok" /\ ev'.body = "valid")) =>
        /\ nav' = "login"
        /\ pc' = "halted"
        /\ ~bound'
        /\ isAuthorized' = "false"

C8_Claim_Step ==
    /\ C8_Verifies
    /\ C8_Fails
    /\ (ev'.op = "me" /\ ev'.status = "ok" /\ ev'.body = "valid") =>
           (pc' = "ready" /\ bound' /\ isAuthorized' = VerifiedIdentity)

\* C8 as claimed: with a token, protectRoute verifies with the backend; a
\* failed verification redirects and stops the page, a successful one lets
\* the page proceed and returns the verified identity.
C8_Claim == [][C8_Claim_Step]_vars

C8_GuardOutcome_Step ==
    /\ C8_Verifies
    /\ C8_Fails
    /\ (ev'.op = "me" /\ ev'.status = "ok" /\ ev'.body = "valid") =>
           (pc' = "ready" /\ bound' /\ isAuthorized' = "true")

\* C8 amended: ... a successful one lets the page proceed and returns true.
C8_GuardOutcome == [][C8_GuardOutcome_Step]_vars

\* C8 witness: verification succeeded and the page went on
C8_Witness ==
    /\ ev.op = "me" /\ ev.status = "ok" /\ ev.body = "valid"
    /\ page \in GuardedPages /\ pc = "ready" /\ bound /\ isAuthorized = "true"

----------------------------------------------------------------------------
(* Properties of the session manager, under SpecSession *)

C11_Claim_Step ==
    (ev'.op = "setup" /\ getTokenRemainingTime(token, now') = 0) =>
        /\ token' = NoItem
        /\ alertMsg' \in LogoutReasons
        /\ nav' = "login"
        /\ autoLogoutTimer' = 0

\* C11: a call of setupAutoLogout that finds a remaining time of zero, the
\* token being expired or absent, logs out: the token is cleared, the user is
\* alerted and login.html is the pending navigation.
C11_Claim == [][C11_Claim_Step]_vars

C12_Effects ==
    ev'.op = "logout" =>
        /\ autoLogoutTimer' = 0
        /\ \A t \in timers' : t.kind # "autoLogout"
        /\ autoLogoutTimer # 0 => autoLogoutTimer \in cancelled'
        /\ token' = NoItem
        /\ alertMsg' = ev'.body
        /\ nav' = "login"

C12_AlreadyLoggedOut ==
    (ev'.op = "logout" /\ ev'.status = "loggedOut") =>
        /\ token' = NoItem
        /\ autoLogoutTimer' = 0
        /\ timers' = timers
        /\ cancelled' = cancelled

C12_SecondCall ==
    (ev.op = "logout" /\ ev'.op = "logout" /\ ev'.body = ev.body) =>
        /\ ev'.status = "loggedOut"
        /\ UNCHANGED <<token, now, loginImpl, page, query, pc, nav, isAuthorized,
                       bound, autoLogoutTimer, timers, nextId, alertMsg, inflight,
                       lastSent, postToDelete, submitDisabled, notice, panel,
                       writer, fired, cancelled, api401, apiRedirects>>

C12_LogoutIdempotent_Step ==
    /\ C12_Effects
    /\ C12_AlreadyLoggedOut
    /\ C12_SecondCall

\* C12: performLogout cancels the auto-logout timer, removes the token, alerts
\* the user with the reason and makes login.html the pending navigation;
\* called when already logged out it leaves the token absent and the timer
\* unarmed, and a second call with the same reason changes nothing the first
\* call left.
C12_LogoutIdempotent == [][C12_LogoutIdempotent_Step]_vars

\* C12 witness: performLogout was called a second time, on a session whose
\* armed timer the first call had cancelled
C12_Witness ==
    /\ ev.op = "logout" /\ ev.status = "loggedOut"
    /\ token = NoItem /\ autoLogoutTimer = 0 /\ timers = {}
    /\ cancelled # {} /\ Len(fired) = 0
    /\ writer = "performLogout" /\ alertMsg = ev.body /\ nav = "login"

\* the token text has three segments whose payload carries an exp field
ExpiryClaim(t) == t.lit = "jwt" /\ t.segs = 3 /\ t.payload = "exp"

C13_Function ==
    isTokenExpired(token, now) =
        (IF ExpiryClaim(token) THEN now >= token.exp * 1000 ELSE TRUE)

C13_Acted ==
    (ev'.op = "setup" /\ Present(token)) =>
        ((token' = NoItem /\ writer' = "performLogout" /\ alertMsg' = "Session expired")
            <=> (IF ExpiryClaim(token) THEN now >= token.exp * 1000 ELSE TRUE))

\* C13: isTokenExpired is true for every token without a decodable expiry
\* claim (not three segments, unparsable payload, no exp field) and, for a
\* token with expiry claim exp, true exactly when now >= exp * 1000; the
\* expiry check of setupAutoLogout logs out exactly in those cases.
C13_ExpiredIff == [](C13_Function) /\ [][C13_Acted]_vars

\* C13 witness: a scheduling call found the token not expired and armed a
\* timer; a later call cancelled it and found the token expired
C13_Witness ==
    /\ ev.op = "setup" /\ writer = "performLogout" /\ token = NoItem
    /\ alertMsg = "Session expired" /\ cancelled # {} /\ Len(fired) = 0
    /\ now > 0

----------------------------------------------------------------------------
(* Properties of the page controllers, under Spec *)

\* a DELETE answered without an error reaching the click handler
DeleteWentThrough_ == ev'.op = "delete" /\ ev'.status \in {"ok", "s401"}
DeleteFailed_ == ev'.op = "delete" /\ ev'.status \notin {"ok", "s401"}

C14_NoPending ==
    (ev'.op = "confirmDelete" /\ postToDelete = "none") =>
        (inflight' = inflight /\ lastSent' = lastSent)

C14_Pending ==
    (ev'.op = "confirmDelete" /\ postToDelete # "none") =>
        /\ inflight' = [inflight EXCEPT !["delete"] = @ + 1]
        /\ lastSent'.kind = "delete"
        /\ lastSent'.post = postToDelete

C14_Reloads ==
    /\ inflight' = [inflight EXCEPT !["delete"] = @ - 1, !["list"] = @ + 1]
    /\ lastSent'.kind = "list"
    /\ panel' = "loading"

C14_Claim_Step ==
    /\ C14_NoPending
    /\ C14_Pending
    /\ ev'.op = "delete" => C14_Reloads

\* C14 as claimed: a confirm click with no pending id sends nothing; with a
\* pending id it sends one DELETE for that id, and when the DELETE is
\* answered the list is loaded again.
C14_Claim == [][C14_Claim_Step]_vars

C14_DeleteThenReload_Step ==
    /\ C14_NoPending
    /\ C14_Pending
    /\ DeleteWentThrough_ => C14_Reloads
    /\ DeleteFailed_ =>
          /\ inflight' = [inflight EXCEPT !["delete"] = @ - 1]
          /\ lastSent' = lastSent
          /\ alertMsg' = "Error deleting post"

\* C14 amended: ... and the list is loaded again when the DELETE is answered
\* with a success status or with 401; when the DELETE fails (network error,
\* other status, unparsable body) the error is alerted and nothing is loaded.
C14_DeleteThenReload == [][C14_DeleteThenReload_Step]_vars

\* C14 witness: the DELETE for the pending id was answered and the list is
\* being loaded again
C14_Witness ==
    /\ page = "dashboard" /\ ev.op = "delete" /\ ev.status = "ok"
    /\ inflight["delete"] = 0 /\ inflight["list"] = 1
    /\ lastSent.kind = "list" /\ panel = "loading"

\* C15: of each operation that calls the backend at most one request is
\* outstanding on a page.
C15_Claim ==
    \A k \in {"login", "loginjs", "create", "update", "delete", "list"} :
        inflight[k] <= 1

\* C17: a page that needs ?id= and has none redirects (edit-post.html to the
\* dashboard, post.html to the listing), requests no post and shows neither
\* a form nor content.
C17_Claim ==
    /\ (page = "edit-post" /\ query = "none" /\ pc = "ready") =>
           /\ nav = "dashboard"
           /\ inflight["fetch"] = 0 /\ inflight["update"] = 0
           /\ lastSent.kind \notin {"fetch", "update"}
           /\ panel \notin {"content", "content+error"}
    /\ (page = "post" /\ query = "none" /\ pc = "ready") =>
           /\ nav = "posts"
           /\ inflight["blogPost"] = 0
           /\ lastSent.kind # "blogPost"
           /\ panel \notin {"content", "content+error"}

C18_RejectedEarly_Step ==
    (ev'.op \in {"submitLogin", "submitPost"} /\ ev'.status = "empty") =>
        /\ inflight' = inflight
        /\ lastSent' = lastSent
        /\ notice' = "error"
        /\ ~submitDisabled'
        /\ bound' /\ nav' = "none"
        /\ token' = token

\* C18: a submit of the login, add-post or edit-post form with an empty
\* required field sends nothing, shows the error inline and leaves the submit
\* control enabled on a page that stays, so that the form can be submitted
\* again.
C18_RejectedEarly == [][C18_RejectedEarly_Step]_vars

\* C18 witness: a form was submitted with an empty field after an earlier
\* submit of the same page load had been sent and had failed
C18_Witness ==
    /\ ev.op \in {"submitLogin", "submitPost"} /\ ev.status = "empty"
    /\ notice = "error" /\ ~submitDisabled
    /\ lastSent.kind \in {"login", "loginjs", "create", "update"}
    /\ Outstanding(World) = 0

C19_Stored ==
    (ev'.op \in {"login", "loginjs"} /\ ev'.status = "ok"
        /\ ev'.body \in {"tokenTop", "tokenNested"}) =>
        /\ token' \in LoginTokens
        /\ writer' = "login"
        /\ nav' = "dashboard"

C19_Failed ==
    (ev'.op \in {"login", "loginjs"}
        /\ ~(ev'.status = "ok" /\ ev'.body \in {"tokenTop", "tokenNested"})) =>
        /\ token' \in {token, NoItem}
        /\ writer' # "login"
        /\ notice' = "error"
        /\ ~submitDisabled'
        /\ nav' = nav

\* C19: a login answer with a token in its top-level or its nested field
\* stores the token and navigates to the dashboard; any other answer (error
\* status, 401, no token, network error, unparsable body) stores nothing,
\* shows the error inline and enables the submit control again.
C19_LoginOutcome == [][C19_Stored /\ C19_Failed]_vars

\* C19 witness: the token came in the nested field and was stored
C19_Witness ==
    /\ page = "login" /\ ev.op \in {"login", "loginjs"}
    /\ ev.status = "ok" /\ ev.body = "tokenNested"
    /\ token \in LoginTokens /\ writer = "login" /\ nav = "dashboard"

C20_Cancel ==
    ev'.op = "cancelDelete" =>
        (postToDelete' = "none" /\ inflight' = inflight /\ lastSent' = lastSent)

C20_ConfirmNothing ==
    (ev'.op = "confirmDelete" /\ postToDelete = "none") => postToDelete' = "none"

C20_Claim_Step ==
    /\ C20_Cancel
    /\ C20_ConfirmNothing
    /\ ev'.op = "delete" => postToDelete' = "none"

\* C20 as claimed: the pending selection is none after every cancel, which
\* sends nothing, and after every confirm once its DELETE is answered.
C20_Claim == [][C20_Claim_Step]_vars

C20_PendingCleared_Step ==
    /\ C20_Cancel
    /\ C20_ConfirmNothing
    /\ DeleteWentThrough_ => postToDelete' = "none"
    /\ DeleteFailed_ => postToDelete' = postToDelete

\* C20 amended: ... and after every confirm whose DELETE is answered with a
\* success status or with 401; a DELETE that fails leaves the selection as it
\* is.
C20_PendingCleared == [][C20_PendingCleared_Step]_vars

\* C20 witness: the DELETE of a confirmed selection was answered with 401 and
\* the selection is cleared
C20_Witness ==
    /\ page = "dashboard" /\ ev.op = "delete" /\ ev.status = "s401"
    /\ postToDelete = "none" /\ inflight["delete"] = 0
    /\ token = NoItem /\ writer = "apiRequest"

----------------------------------------------------------------------------
(* Properties of the listings, under SpecPublic (blog.js) and Spec (admin.js) *)

\* the posts an answer carries, whatever its shape
PostsOf(b) == BodyData(b).items

\* C16: once GET /api/posts is answered with the list in the {posts: [...]}
\* envelope or as a bare array, the listing shows the posts, or the empty
\* state when there are none, whichever of the two shapes arrived.
C16_Claim ==
    (ev.op \in {"list", "blogList"} /\ ev.status = "ok"
        /\ ev.body \in {"envPosts", "envEmpty", "barePosts", "bareEmpty"}) =>
        panel = (IF Len(PostsOf(ev.body)) = 0 THEN "empty" ELSE "content")

----------------------------------------------------------------------------
(* Properties of the API client and of what its callers do, under Spec *)

\* a step in which apiRequest sent a request
ApiSent_ == \E k \in ApiKinds : inflight'[k] > inflight[k]

C21_Headers_Step ==
    ApiSent_ =>
        /\ lastSent'.kind \in ApiKinds
        /\ lastSent'.auth <=> Truthy(token')
        /\ lastSent'.auth <=> Present(token')
        /\ lastSent'.json <=> lastSent'.kind \notin FormDataKinds

C27_Claim ==
    (ev.op \in {"create", "update"} /\ ev.status # "ok") =>
        /\ notice # "success"
        /\ \A t \in timers : t.kind # "redirect"

\* C28: on a guarded page, no auto-logout timer is armed while no token is
\* stored.
C28_Claim ==
    (page \in GuardedPages /\ ~Present(token)) =>
        (AutoLogoutTimers = {} /\ autoLogoutTimer = 0)

C29_Claim_Step ==
    (ev'.op = "me" /\ pc' = "ready" /\ Present(token)) =>
        \/ /\ writer' = "performLogout"
           /\ token' = NoItem
           /\ nav' = "login"
        \/ /\ Present(token')
           /\ Cardinality({t \in timers' : t.kind = "autoLogout"}) = 1
           /\ \E t \in timers' : t.id = autoLogoutTimer'

\* C29: when setupAutoLogout has returned on a page that passed the guard,
\* either a logout was performed or one timer is armed, however much time
\* passed between the expiry test and the computation of the remaining time.
C29_Claim == [][C29_Claim_Step]_vars

----------------------------------------------------------------------------
\* an answer of apiRequest with a status that is neither 401 nor a success
ApiErrorStatus_ == ev'.op \in ApiKinds /\ ev'.status = "serr"

C22_Claim_Step ==
    /\ ApiErrorStatus_ =>
          /\ ev'.outcome = (IF ev'.body = "message" THEN "backend" ELSE "generic")
          /\ token' = token /\ writer' = writer
    /\ (ev'.op \in ApiKinds /\ ev'.status = "ok") => ev'.outcome = "data"

\* C22: on a status that is neither 401 nor a success, apiRequest raises an
\* error whose message is the backend's, or the generic one when the backend
\* gave none, and leaves the stored token as it is; on a success status it
\* returns the parsed body.
C22_Claim == [][C22_Claim_Step]_vars

----------------------------------------------------------------------------
(* Properties of the tab left alone, under SpecUnattended *)

LoadKinds == {"list", "fetch", "blogList", "blogPost"}

\* a list or detail request failed: no answer, or a status that is no success
LoadFailed_ == ev'.op \in LoadKinds /\ ev'.status \in {"neterr", "s401", "serr"}

C23_LoadFailureShowsError_Step == LoadFailed_ => panel' = "error"

Rests == nav = "none"

\* C26: whatever is stored and however the backend behaves, the automatic
\* redirects that follow the load of an admin page come to an end: from some
\* moment on the tab rests on one page.
C26_Claim == <>[]Rests

----------------------------------------------------------------------------
(* Properties of the home page, under SpecHome *)

C31_Claim_Step ==
    /\ Cardinality(intervals') <= 1
    /\ homeEv' = "mouseenter" => intervals' = {}

\* C31: whatever mouseenter, mouseleave and dot click events the hero slider
\* has handled, at most one auto-slide interval runs, and none runs once
\* stopAutoSlide has been called.
C31_Claim == [][C31_Claim_Step]_vars

\* currentSlide is the index of a slide, and the slide and the dot of that
\* index, and no other, carry the class active
ValidSlide ==
    /\ currentSlide \in 0..(slideCount - 1)
    /\ activeSlides = {currentSlide}
    /\ activeDots = {currentSlide}

C32_Slider_Step ==
    /\ ValidSlide
    /\ ValidSlide'
    /\ homeEv' = "interval" =>
          currentSlide' = (IF currentSlide = slideCount - 1 THEN 0 ELSE currentSlide + 1)

\* C32: whatever intervals fired and dots were clicked, currentSlide is the
\* index of a slide, exactly the slide and the dot of that index carry the
\* class active, and nextSlide moves to the next index, to 0 from the last.
C32_Slider == [][C32_Slider_Step]_vars

\* an interval fired on the last slide, after a dot click went there
C32_Witness ==
    /\ homeEv = "interval" /\ slideCount = MaxSlides /\ currentSlide = 0
    /\ autoSlideInterval > 1
    /\ activeSlides = {0} /\ activeDots = {0}

----------------------------------------------------------------------------
(* Properties of the text functions, under SpecText *)

\* the words of str: its longest runs of characters that are not white
\* space, given by where they start and end
WordStarts(str) ==
    {i \in 1..Len(str) : str[i] \notin WhiteSpace /\ (i = 1 \/ str[i - 1] \in WhiteSpace)}
WordEnd(str, i) ==
    CHOOSE j \in i..Len(str) :
        /\ \A k \in i..j : str[k] \notin WhiteSpace
        /\ j = Len(str) \/ str[j + 1] \in WhiteSpace

\* the words of str from index i on, joined by single spaces
RECURSIVE JoinedWords(_, _)
JoinedWords(str, from) ==
    LET starts == {i \in WordStarts(str) : i >= from}
    IN  IF starts = {} THEN <<>>
        ELSE LET i == CHOOSE x \in starts : \A y \in starts : x <= y
                 j == WordEnd(str, i)
                 rest == JoinedWords(str, j + 1)
             IN  SubSeq(str, i, j) \o (IF rest = <<>> THEN <<>> ELSE <<" ">> \o rest)

\* str with every run of white space collapsed to one space, and trimmed
Cleaned(str) == JoinedWords(str, 1)

HasEllipsis(str) == Len(str) >= 3 /\ SubSeq(str, Len(str) - 2, Len(str)) = Ellipsis

\* C24: getExcerpt(content, maxLen) collapses every run of white space to a
\* single space and trims; a result of at most maxLen characters is returned
\* as it is, a longer one as its first maxLen characters followed by an
\* ellipsis.
C24_Excerpt ==
    rendered.fn = "getExcerpt" =>
        LET clean == Cleaned(content)
            n == rendered.maxLength
        IN  IF Len(clean) <= n THEN rendered.excerpt = clean
            ELSE /\ Len(rendered.excerpt) = n + 3
                 /\ SubSeq(rendered.excerpt, 1, n) = SubSeq(clean, 1, n)
                 /\ HasEllipsis(rendered.excerpt)

\* an excerpt of exactly maxLen characters, made of two words that more than
\* one white space character separated: returned whole
C24_Witness ==
    /\ rendered.fn = "getExcerpt" /\ rendered.maxLength = 3
    /\ rendered.excerpt = <<"a", " ", "a">>
    /\ Len(content) > 3

\* the blocks of the content split on blank lines that are not blank
Blank(str) == \A i \in 1..Len(str) : str[i] \in WhiteSpace
Blocks(str) == SelectSeq(Split(str, <<NL, NL>>), LAMBDA b : ~Blank(b))

\* the element el is what the claim says of block b
ElementOf(b, el) ==
    LET n == LeadingRun(b, "#")
    IN  IF n >= 1 THEN el.tag = "h" /\ el.level = Min(n + 1, 6)
        ELSE IF b[1] = ">" THEN el.tag = "blockquote"
        ELSE IF StartsWith(b, Fence)
        THEN el.tag = "pre>code" /\ IndexOf(el.text, Fence) = 0
        ELSE /\ el.tag = "p"
             /\ Len(el.text) = Len(b)
             /\ \A i \in 1..Len(b) : el.text[i] = (IF b[i] = NL THEN BR ELSE b[i])

\* C25: formatContent gives one element per block of the content that is not
\* blank, in the order of the blocks: a heading of level min(n + 1, 6) for a
\* block that starts with n '#', a blockquote for one that starts with '>',
\* a code block without the markers for one that starts with a triple
\* backtick, and otherwise a paragraph with each newline as a line break.
C25_Format ==
    rendered.fn = "formatContent" =>
        LET blocks == Blocks(content)
        IN  /\ \A i \in 1..Len(blocks) : IndexOf(blocks[i], <<NL, NL>>) = 0
            /\ Len(rendered.html) = Len(blocks)
            /\ \A i \in 1..Len(blocks) : ElementOf(blocks[i], rendered.html[i])

\* a heading of six '#', capped at the deepest level, followed by a paragraph
C25_Witness ==
    /\ rendered.fn = "formatContent"
    /\ Len(rendered.html) = 2
    /\ rendered.html[1].tag = "h" /\ rendered.html[1].level = 6
    /\ LeadingRun(content, "#") = 6
    /\ rendered.html[2].tag = "p"

----------------------------------------------------------------------------
(* Properties of the public pages, under SpecPublic *)

\* C30: once the load of posts.html or post.html has finished, one of the
\* result panels (content, empty state, error state) is shown, alone, and
\* the loading indicator is hidden, whatever the backend answered.
C30_Claim ==
    ev.op \in {"blogList", "blogPost"} => panel \in {"content", "empty", "error"}

====
